---- MODULE Spec2Model ----
(***************************************************************************)
(* Mock data generation of monzoor/mock-server: the worker pool            *)
(* (utils/workerUtils.js), the two runners (the pool runner kept in        *)
(* config/configManager.js and the Promise.all runner of runner.js), and   *)
(* the two merge steps (the directory-scanning mergeJsonFiles of the pool  *)
(* runner and the key-driven fileUtils.mergeJsonFiles).                    *)
(*                                                                         *)
(* In a run of main a factory file is named by the entity key it declares  *)
(* (1..NumFiles), so factory file f, its worker, its task and its Entity   *)
(* Document f.json all carry the number f; SpecPool also has factory files *)
(* that declare the key of another file.  Record values are the tags "old" *)
(* (written by an earlier run), "new" (written by this run) and "extra" (a *)
(* second top-level key of a hand-edited document).                        *)
(*                                                                         *)
(* The factory itself (core/factoryCore.js as kept in runner.js,           *)
(* monFactory.js, utils/dataUtils.js, the streaming writer of              *)
(* utils/fileUtils.js) and the ConfigManager of config/configManager.js    *)
(* are modelled on JavaScript values: a call of one exported function with *)
(* its arguments is a state, the call is an action.                        *)
(***************************************************************************)
EXTENDS Integers, Sequences, FiniteSets, TLC

\* ---------------------------------------------------------------- bounds
NumFiles == 3
MaxWorkersCfg == 2
Cpus == 2

Keys == 1..NumFiles

VARIABLES
    runner,         \* "pool": configManager.js:253-341; "promiseAll": runner.js:69-163
    useParallel,    \* configManager.get('processing.parallel')
    maxWorkers,     \* configManager.get('processing.maxWorkers', 0)
    factory,        \* the factory folder: per key "absent", "valid" or "invalid"
    dir,            \* the documents directory (dbDir): per name the file content
    staleBefore,    \* the stale Entity Documents in dbDir before the run
    db,             \* the consolidated file (outputFile)
    pc,             \* position of main / of the merge call
    taskQueue,      \* workerUtils.js: taskQueue
    activeWorkers,  \* workerUtils.js: activeWorkers
    results,        \* workerUtils.js: results
    resolved,       \* workerUtils.js: the promise of runWithWorkers has resolved
    wstate,         \* per worker thread: "none", "running", "errored" (error event
                    \* emitted), "exited" (code 0), "crashed" (non-zero code)
    msg,            \* per task: the message posted, "none", "completed", "error"
    settled,        \* runner.js: per processFileWithWorker promise
    succeeded,      \* runner.js: results.succeeded
    failed,         \* runner.js: results.failed
    remaining,      \* the files the sequential for-loop has not reached yet
    factoryKeys,    \* the keys returned by extractFactoryKeys
    todo,           \* the rest of the merge loop (file names, or keys)
    mergedData,     \* mergedData (configManager.js:290) / result (fileUtils.js:281)
    deleted,        \* the files this merge call has deleted, with their content
    mergeRun,       \* 1 for the first merge call, 2 for the repeated one
    firstRun,       \* what the first merge call left: the consolidated file and the
                    \* files it deleted
    called,         \* the exported function that is called, "none" in a run of main
    argConfig,      \* the descriptor passed to create / createMockData
    argTemplate,    \* the templateFn of create / createMockData, the template of
                    \* processTemplate / generateData, the data of streamJsonToFile
    argIndex,       \* the repetition index passed to processTemplate / generateData
    settings,       \* the configManager values monFactory.create reads
    returned,       \* what the call returned, Throw when it threw
    outFile,        \* the file the call writes: its path, its text, whether the
                    \* write is finished
    jsonStream,     \* streamJsonToFile: the Transform stream
    promise,        \* streamJsonToFile: the promise it returns
    core,           \* which extractFactoryKeys: "rethrow" is runner.js:244-265,
                    \* "fallback" is runner.js:349-393
    listFails,      \* readDirectoryFiles(FACTORY_FOLDER) rejects
    cwdFiles,       \* what fs.readdir(process.cwd()/factory) gives
    readFails,      \* the factory files whose readFile rejects
    mkdirFails,     \* fs.promises.mkdir(dbDir) rejects: dbDir is missing and cannot
                    \* be created
    keyOf,          \* per factory file the _key it passes to monFactory.create
    env,            \* process.env: the MOCK_SERVER_ variables by their name, the
                    \* MOCK_ENTITY_{KEY}_REPEAT variables by their {KEY}
    userConfig,     \* configManager.userConfig: mock-config.json as parsed
    thisConfig,     \* configManager.config
    loaded,         \* configManager.loaded
    argPath         \* the path passed to configManager.get, split at the dots

callVars == <<called, argConfig, argTemplate, argIndex, settings,
              env, userConfig, thisConfig, loaded, argPath>>
streamVars == <<outFile, jsonStream, promise>>
keyVars == <<core, listFails, cwdFiles, readFails>>

vars == <<runner, useParallel, maxWorkers, factory, dir, staleBefore, db, pc, taskQueue,
          activeWorkers, results, resolved, wstate, msg, settled, succeeded,
          failed, remaining, factoryKeys, todo, mergedData, deleted, mergeRun, firstRun,
          callVars, returned, streamVars, keyVars, mkdirFails, keyOf>>

poolVars == <<taskQueue, activeWorkers, results, resolved>>
workerVars == <<wstate, msg>>
promiseVars == <<settled, succeeded, failed>>
mergeVars == <<factoryKeys, todo, mergedData, deleted, mergeRun, firstRun>>
configVars == <<runner, useParallel, maxWorkers, factory, staleBefore,
                callVars, returned, streamVars, keyVars, mkdirFails, keyOf>>

\* ------------------------------------------------------------- documents
EmptyObject == [k \in {} |-> "old"]

AbsentFile == [kind |-> "absent", first |-> 0, data |-> EmptyObject]

MalformedFile == [kind |-> "malformed", first |-> 0, data |-> EmptyObject]

\* { [key]: data } as monFactory.create writes it
EntityDocument(key, value) ==
    [kind |-> "json", first |-> key, data |-> [k \in {key} |-> value]]

NextKey(key) == (key % NumFiles) + 1

\* a document with a second top-level key after its own
MultiKeyDocument(key) ==
    [kind |-> "json", first |-> key,
     data |-> [k \in {key, NextKey(key)} |-> IF k = key THEN "old" ELSE "extra"]]

\* what <name>.json may hold before the run
Content(name, kind) ==
    CASE kind = "absent" -> AbsentFile
      [] kind = "malformed" -> MalformedFile
      [] kind = "entity" -> EntityDocument(name, "old")
      [] kind = "multi" -> MultiKeyDocument(name)

Directories ==
    {[n \in Keys |-> Content(n, kinds[n])] :
        kinds \in [Keys -> {"absent", "malformed", "entity", "multi"}]}

NoDb == [written |-> FALSE, data |-> EmptyObject]

\* { ...a, ...b }
Spread(a, b) ==
    [k \in (DOMAIN a) \cup (DOMAIN b) |-> IF k \in DOMAIN b THEN b[k] ELSE a[k]]

Min(a, b) == IF a < b THEN a ELSE b

RECURSIVE SortedSeq(_)
SortedSeq(S) ==
    IF S = {} THEN <<>>
    ELSE LET m == CHOOSE x \in S : \A y \in S : x <= y
         IN <<m>> \o SortedSeq(S \ {m})

Range(s) == {s[i] : i \in 1..Len(s)}

\* fs.readdir(factoryFolder) filtered to .js
jsFiles == {f \in Keys : factory[f] # "absent"}

\* fs.readdir(dbDir) filtered to .json
jsonFiles == {n \in Keys : dir[n].kind # "absent"}


\* ------------------------------------------------------------- JS values
\* a JavaScript value is a tagged record; a string is the sequence of its
\* characters and a property name is such a sequence too
Undefined == [t |-> "undefined"]

\* the number n, or n + 0.5 when frac
Num(n) == [t |-> "num", n |-> n, frac |-> FALSE]

Half(n) == [t |-> "num", n |-> n, frac |-> TRUE]

NaN == [t |-> "nan"]

Bool(b) == [t |-> "bool", b |-> b]

Str(s) == [t |-> "str", s |-> s]

Obj(f) == [t |-> "obj", f |-> f]

Arr(e) == [t |-> "arr", e |-> e]

\* a function (index) => ret, where the value IndexArg inside ret stands for
\* the argument
Fn(ret) == [t |-> "fn", ret |-> ret]

IndexArg == [t |-> "index"]

\* the outcome of a call that threw
Throw == [t |-> "throw"]

ID == <<"i", "d">>

REPEAT == <<"_", "r", "e", "p", "e", "a", "t">>

KEY == <<"_", "k", "e", "y">>

TEMPLATE == <<"_", "t", "e", "m", "p", "l", "a", "t", "e">>

Digits == <<"0", "1", "2", "3", "4", "5", "6", "7", "8", "9">>

\* key in obj
In(key, obj) == key \in DOMAIN obj.f

\* const { [key]: _, ...rest } = obj
Rest(obj, key) == Obj([k \in (DOMAIN obj.f) \ {key} |-> obj.f[k]])

\* String(i) of an array index
RECURSIVE IndexName(_)
IndexName(i) ==
    IF i < 10 THEN <<Digits[i + 1]>>
    ELSE IndexName(i \div 10) \o <<Digits[(i % 10) + 1]>>

\* the own enumerable properties a spread copies: those of an object, the
\* indices of an array, none of a number or of undefined
SpreadProps(v) ==
    CASE v.t = "obj" -> v.f
      [] v.t = "arr" -> [k \in {IndexName(i - 1) : i \in 1..Len(v.e)} |->
                            v.e[CHOOSE i \in 1..Len(v.e) : IndexName(i - 1) = k]]
      [] OTHER -> <<>>

IsWhiteSpace(c) == c \in {" ", "\t"}

RECURSIVE trimStart(_)
trimStart(s) ==
    IF s # <<>> /\ IsWhiteSpace(Head(s)) THEN trimStart(Tail(s)) ELSE s

RECURSIVE trimEnd(_)
trimEnd(s) ==
    IF s # <<>> /\ IsWhiteSpace(s[Len(s)]) THEN trimEnd(SubSeq(s, 1, Len(s) - 1)) ELSE s

\* trim that removes nothing
trimNothing(s) == s

\* String.prototype.trim
trim(s) == trimEnd(trimStart(s))

\* the number a string of digits denotes
RECURSIVE DecimalValue(_)
DecimalValue(s) ==
    IF s = <<>> THEN 0
    ELSE 10 * DecimalValue(SubSeq(s, 1, Len(s) - 1))
         + (CHOOSE i \in 1..10 : Digits[i] = s[Len(s)]) - 1

\* ToNumber of a number or a string
ToNumber(v) ==
    CASE v.t = "num" -> v
      [] v.t = "str" ->
            IF \A i \in 1..Len(trim(v.s)) : trim(v.s)[i] \in Range(Digits)
            THEN Num(DecimalValue(trim(v.s)))
            ELSE NaN
      [] OTHER -> NaN

\* a < k for an integer k, as the relational operator computes it
LessThan(a, k) == ToNumber(a).t = "num" /\ ToNumber(a).n < k

\* ToBoolean
Truthy(v) ==
    CASE v.t = "undefined" -> FALSE
      [] v.t = "num" -> v.n # 0 \/ v.frac
      [] v.t = "nan" -> FALSE
      [] v.t = "bool" -> v.b
      [] v.t = "str" -> v.s # <<>>
      [] OTHER -> TRUE

\* ToLength, as Array.from({ length }) applies it
ToLength(v) ==
    IF ToNumber(v).t = "num" /\ ToNumber(v).n > 0 THEN ToNumber(v).n ELSE 0

\* the value of the call fn(index)
RECURSIVE Call(_, _)
Call(fn, index) ==
    LET ret == IF fn.t = "fn" THEN fn.ret ELSE fn
    IN CASE ret.t = "index" -> Num(index)
         [] ret.t = "obj" -> Obj([k \in DOMAIN ret.f |-> Call(ret.f[k], index)])
         [] ret.t = "arr" -> Arr([i \in 1..Len(ret.e) |-> Call(ret.e[i], index)])
         [] OTHER -> ret

RECURSIVE Flatten(_)
Flatten(parts) ==
    IF parts = <<>> THEN <<>> ELSE Head(parts) \o Flatten(Tail(parts))

\* ------------------------------------------------------------- dataUtils
RECURSIVE processTemplate(_, _)
\* what the flatMap callback of processTemplate returns for one entry, as the
\* sequence flatMap splices into the result
flatMapEntry(entry, index) ==
    IF entry.t = "obj" /\ In(REPEAT, entry)
    THEN LET repeatCount == entry.f[REPEAT]
         IN IF repeatCount.t # "num" \/ LessThan(repeatCount, 1)
            THEN Throw
            ELSE Arr([i \in 1..ToLength(repeatCount) |->
                        processTemplate(Rest(entry, REPEAT), index)])
    ELSE LET r == processTemplate(entry, index)
         IN IF r.t \in {"arr", "throw"} THEN r ELSE Arr(<<r>>)

processTemplate(tmpl, index) ==
    CASE tmpl.t = "arr" ->
            LET parts == [i \in 1..Len(tmpl.e) |-> flatMapEntry(tmpl.e[i], index)]
            IN IF \E i \in 1..Len(parts) :
                    parts[i].t = "throw"
                    \/ \E j \in 1..Len(parts[i].e) : parts[i].e[j].t = "throw"
               THEN Throw
               ELSE Arr(Flatten([i \in 1..Len(parts) |-> parts[i].e]))
      [] tmpl.t = "obj" ->
            LET result == [key \in (DOMAIN tmpl.f) \ {REPEAT} |->
                              processTemplate(tmpl.f[key], index)]
            IN IF \E key \in DOMAIN result : result[key].t = "throw"
               THEN Throw
               ELSE Obj(result)
      [] tmpl.t = "fn" -> Call(tmpl, index)
      [] OTHER -> tmpl

\* { id: index + 1, ...item }
generateData(template, index) ==
    LET item == processTemplate(template, index)
    IN IF item.t = "throw" THEN Throw
       ELSE Obj(Spread([k \in {ID} |-> Num(index + 1)], SpreadProps(item)))

\* ----------------------------------------------------------------- JSON
\* the order in which the property names of a record appear in an object
PropertyOrder == <<ID, <<"x">>, <<"y">>, REPEAT>>

\* Object.keys(obj): the only key of a one-key object, otherwise the keys in
\* PropertyOrder
ObjectKeys(obj) ==
    IF Cardinality(DOMAIN obj.f) = 1
    THEN <<CHOOSE k \in DOMAIN obj.f : TRUE>>
    ELSE SelectSeq(PropertyOrder, LAMBDA k : k \in DOMAIN obj.f)

\* JSON text is a sequence of tokens; white space is not represented
Punct(c) == [k |-> "punct", c |-> c]

NameTok(s) == [k |-> "name", s |-> s]

ScalarTok(v) == [k |-> "scalar", v |-> v]

\* the parts joined with commas
RECURSIVE Join(_)
Join(parts) ==
    IF parts = <<>> THEN <<>>
    ELSE IF Len(parts) = 1 THEN parts[1]
    ELSE parts[1] \o <<Punct(",")>> \o Join(Tail(parts))

\* JSON.stringify(value, null, indent) without its white space
RECURSIVE stringify(_)
stringify(v) ==
    CASE v.t = "obj" ->
            <<Punct("{")>>
            \o Join([i \in 1..Len(ObjectKeys(v)) |->
                        <<NameTok(ObjectKeys(v)[i]), Punct(":")>>
                        \o stringify(v.f[ObjectKeys(v)[i]])])
            \o <<Punct("}")>>
      [] v.t = "arr" ->
            <<Punct("[")>>
            \o Join([i \in 1..Len(v.e) |-> stringify(v.e[i])])
            \o <<Punct("]")>>
      [] OTHER -> <<ScalarTok(v)>>

\* the number of characters of a number's decimal form
NumberLength(v) ==
    (IF v.n < 0 THEN 1 ELSE 0)
    + (IF v.n \in -9..9 THEN 1 ELSE IF v.n \in -99..99 THEN 2 ELSE 3)
    + (IF v.frac THEN 2 ELSE 0)

RECURSIVE Sum(_)
Sum(lengths) ==
    IF Len(lengths) = 0 THEN 0
    ELSE lengths[Len(lengths)] + Sum(SubSeq(lengths, 1, Len(lengths) - 1))

\* JSON.stringify(value).length
RECURSIVE jsonLength(_)
jsonLength(v) ==
    CASE v.t = "obj" ->
            2 + (IF Len(ObjectKeys(v)) = 0 THEN 0 ELSE Len(ObjectKeys(v)) - 1)
            + Sum([i \in 1..Len(ObjectKeys(v)) |->
                      Len(ObjectKeys(v)[i]) + 3 + jsonLength(v.f[ObjectKeys(v)[i]])])
      [] v.t = "arr" ->
            2 + (IF Len(v.e) = 0 THEN 0 ELSE Len(v.e) - 1)
            + Sum([i \in 1..Len(v.e) |-> jsonLength(v.e[i])])
      [] v.t = "num" -> NumberLength(v)
      [] v.t = "str" -> Len(v.s) + 2
      [] OTHER -> 4

\* shouldUseStreaming(data, threshold): the extrapolated size of the first 10
\* elements, or of the first 5 entries, against the threshold
shouldUseStreaming(data, threshold) ==
    IF data.t = "arr"
    THEN IF Len(data.e) = 0 THEN FALSE
         ELSE LET sampleSize == Min(10, Len(data.e))
                  sample == Arr(SubSeq(data.e, 1, sampleSize))
              IN jsonLength(sample) * Len(data.e) > threshold * sampleSize
    ELSE LET keys == ObjectKeys(data)
         IN IF Len(keys) = 0 THEN FALSE
            ELSE LET sampleSize == Min(5, Len(keys))
                     sampleData == Obj([k \in Range(SubSeq(keys, 1, sampleSize)) |->
                                           data.f[k]])
                 IN jsonLength(sampleData) * Len(keys) > threshold * sampleSize

\* ------------------------------------------------------------ factoryCore
KeyProp == <<"k", "e", "y">>

DataProp == <<"d", "a", "t", "a">>

\* config._repeat || 1
repeatOrOne(config) ==
    IF In(REPEAT, config) /\ Truthy(config.f[REPEAT]) THEN config.f[REPEAT] ELSE Num(1)

\* const item = { ...templateFn(i) }; delete item._repeat; { id, ...item }
materialize(templateFn, i) ==
    LET item == Rest(Obj(SpreadProps(Call(templateFn, i))), REPEAT)
    IN Obj(Spread([k \in {ID} |-> Num(i + 1)], item.f))

\* createMockData(config, templateFn): { key, data: { [key]: data } }, or Throw;
\* calling a templateFn that is no function is a TypeError
createMockData(config, templateFn) ==
    IF ~In(KEY, config) THEN Throw
    ELSE IF config.f[KEY].t # "str" THEN Throw
    ELSE IF trim(config.f[KEY].s) = <<>> THEN Throw
    ELSE LET hasExplicitRepeat == In(REPEAT, config)
             count == repeatOrOne(config)
             key == config.f[KEY].s
             invoked == IF hasExplicitRepeat \/ ~LessThan(count, 2)
                        THEN ToLength(count) > 0
                        ELSE TRUE
             data == IF hasExplicitRepeat \/ ~LessThan(count, 2)
                     THEN Arr([i \in 1..ToLength(count) |-> materialize(templateFn, i - 1)])
                     ELSE materialize(templateFn, 0)
         IN IF LessThan(count, 0) THEN Throw
            ELSE IF invoked /\ templateFn.t # "fn" THEN Throw
            ELSE Obj((KeyProp :> Str(key)) @@ (DataProp :> Obj((key :> data))))

\* -------------------------------------------------------------- monFactory
\* factory.defaultRepeat of defaultConfig
defaultRepeat == 10

\* factory.streamingThreshold of defaultConfig
streamingThreshold == 5 * 1024 * 1024

DefaultSettings ==
    [defaultRepeat |-> Num(defaultRepeat), entities |-> <<>>,
     useStreaming |-> TRUE, streamingThreshold |-> streamingThreshold]

\* ------------------------------------------------------------ configManager
defaultConfig ==
    Obj([factory |-> Obj([defaultRepeat |-> Num(defaultRepeat),
                          maxRepeat |-> Num(1000),
                          useStreaming |-> Bool(TRUE),
                          streamingThreshold |-> Num(streamingThreshold)]),
         processing |-> Obj([parallel |-> Bool(TRUE), maxWorkers |-> Num(0)]),
         output |-> Obj([pretty |-> Bool(TRUE),
                         dbDir |-> Str(<<".", "/", "d", "b">>),
                         outputFile |-> Str(<<".", "/", "d", "b", ".", "j", "s", "o", "n">>)]),
         server |-> Obj([port |-> Num(3000), delay |-> Num(0), watch |-> Bool(TRUE)]),
         entities |-> Obj(<<>>)])

\* parseInt(s, 10): the integer the longest prefix of sign and digits denotes,
\* NaN when there is no digit
parseInt(s) ==
    LET t == trimStart(s)
        negative == t # <<>> /\ Head(t) = "-"
        u == IF negative THEN Tail(t) ELSE t
        n == CHOOSE k \in 0..Len(u) :
                /\ \A i \in 1..k : u[i] \in Range(Digits)
                /\ k < Len(u) => u[k + 1] \notin Range(Digits)
    IN IF n = 0 THEN NaN
       ELSE Num((IF negative THEN -1 ELSE 1) * DecimalValue(SubSeq(u, 1, n)))

\* String.prototype.toLowerCase, on the letters of "TRUE" and of the entity key
toLowerCase(s) ==
    LET upper == <<"A", "E", "R", "T", "U">>
        lower == <<"a", "e", "r", "t", "u">>
    IN [i \in 1..Len(s) |->
            IF \E j \in 1..Len(upper) : upper[j] = s[i]
            THEN lower[CHOOSE j \in 1..Len(upper) : upper[j] = s[i]]
            ELSE s[i]]

\* the envConfig that _loadFromEnvironment builds from process.env
loadFromEnvironment(e) ==
    LET set(name) == name \in DOMAIN e.server /\ e.server[name] # <<>>
        number(name, key) ==
            IF set(name) THEN [k \in {key} |-> parseInt(e.server[name])] ELSE <<>>
        flag(name, key) ==
            IF set(name)
            THEN [k \in {key} |-> Bool(toLowerCase(e.server[name]) = <<"t", "r", "u", "e">>)]
            ELSE <<>>
    IN Obj([factory |->
                Obj(Spread(Spread(number("MOCK_SERVER_DEFAULT_REPEAT", "defaultRepeat"),
                                  number("MOCK_SERVER_MAX_REPEAT", "maxRepeat")),
                           flag("MOCK_SERVER_USE_STREAMING", "useStreaming"))),
            processing |->
                Obj(Spread(flag("MOCK_SERVER_PARALLEL", "parallel"),
                           number("MOCK_SERVER_MAX_WORKERS", "maxWorkers"))),
            output |-> Obj(<<>>),
            server |-> Obj(number("MOCK_SERVER_PORT", "port")),
            entities |->
                Obj([k \in {toLowerCase(key) : key \in DOMAIN e.entity} |->
                        parseInt(e.entity[CHOOSE key \in DOMAIN e.entity :
                                             toLowerCase(key) = k])])])

\* _mergeConfigs(...configs): the reduce over the configs, from {}
RECURSIVE mergeConfigs(_)
mergeConfigs(configs) ==
    IF configs = <<>> THEN Obj(<<>>)
    ELSE LET result == mergeConfigs(SubSeq(configs, 1, Len(configs) - 1))
             current == configs[Len(configs)]
             keys == IF current.t = "obj" THEN DOMAIN current.f ELSE {}
             isObject(v) == v.t = "obj"
         IN IF ~Truthy(current) THEN result
            ELSE Obj([key \in (DOMAIN result.f) \cup keys |->
                        IF key \notin keys THEN result.f[key]
                        ELSE IF /\ key \in DOMAIN result.f
                                /\ Truthy(result.f[key])
                                /\ isObject(result.f[key])
                                /\ isObject(current.f[key])
                             THEN mergeConfigs(<<result.f[key], current.f[key]>>)
                             ELSE current.f[key]])

\* this.config once load has run
loadedConfig ==
    IF loaded THEN thisConfig
    ELSE mergeConfigs(<<defaultConfig, loadFromEnvironment(env), userConfig>>)

\* the loop of configManager.get(path), with defaultValue undefined: Throw is the
\* TypeError of the in operator on a number, a string or a boolean; no part of a
\* setting path is a property of an array
RECURSIVE getFrom(_, _)
getFrom(current, parts) ==
    IF parts = <<>> THEN current
    ELSE IF current.t \in {"undefined", "arr"} THEN Undefined
    ELSE IF current.t # "obj" THEN Throw
    ELSE IF ~In(Head(parts), current) THEN Undefined
    ELSE getFrom(current.f[Head(parts)], Tail(parts))

\* the configManager as constructed, with no variable set and no mock-config.json
NotLoaded ==
    /\ env = [server |-> <<>>, entity |-> <<>>]
    /\ userConfig = Obj(<<>>)
    /\ thisConfig = defaultConfig
    /\ loaded = FALSE
    /\ argPath = <<>>

\* configManager.getRepeatForEntity(entityKey)
getRepeatForEntity(entityKey) ==
    IF entityKey.t = "str" /\ entityKey.s \in DOMAIN settings.entities
    THEN settings.entities[entityKey.s]
    ELSE settings.defaultRepeat

\* the effectiveConfig of monFactory.create
effectiveConfig(cfg) ==
    LET entityKey == IF In(KEY, cfg) THEN cfg.f[KEY] ELSE Undefined
        configuredRepeat == getRepeatForEntity(entityKey)
    IN IF ~In(REPEAT, cfg) /\ Truthy(configuredRepeat)
       THEN Obj(Spread(cfg.f, [k \in {REPEAT} |-> configuredRepeat]))
       ELSE cfg

JsonExt == <<".", "j", "s", "o", "n">>

\* path.join(dbDir, `${key}.json`), relative to dbDir
filePath(key) == key \o JsonExt

NoFile == [path |-> <<>>, text |-> <<>>, finished |-> FALSE]

NoStream == [readable |-> <<>>, ended |-> FALSE]

\* what the transform function of jsonStream pushes for all chunks written to it:
\* a comma before every chunk but the first, then the entry or the element
transform(data) ==
    IF data.t = "arr"
    THEN Join([i \in 1..Len(data.e) |-> stringify(data.e[i])])
    ELSE Join([i \in 1..Len(ObjectKeys(data)) |->
                  <<NameTok(ObjectKeys(data)[i]), Punct(":")>>
                  \o stringify(data.f[ObjectKeys(data)[i]])])

\* streamJsonToFile(path, data) up to the end of the promise executor: the opening
\* delimiter goes to fileStream, every entry goes through jsonStream, whose
\* readable side nothing is piped from or reads, then jsonStream.end()
streamJsonToFile(path, data) ==
    /\ outFile' = [path |-> path, finished |-> FALSE,
                   text |-> <<Punct(IF data.t = "arr" THEN "[" ELSE "{")>>]
    /\ jsonStream' = [readable |-> transform(data), ended |-> TRUE]
    /\ promise' = "pending"

\* writeJsonFile(path, data, true): writeFileSync of JSON.stringify(data, null, 2)
writeJsonFile(path, data) ==
    /\ outFile' = [path |-> path, finished |-> TRUE, text |-> stringify(data)]
    /\ UNCHANGED <<jsonStream, promise>>

\* no exported function is called on its own
NoCall ==
    /\ NotLoaded
    /\ called = "none"
    /\ argConfig = Undefined
    /\ argTemplate = Undefined
    /\ argIndex = 0
    /\ settings = DefaultSettings
    /\ returned = Undefined
    /\ outFile = NoFile
    /\ jsonStream = NoStream
    /\ promise = "none"
    /\ core = "fallback"
    /\ listFails = FALSE
    /\ cwdFiles = [ok |-> FALSE, files |-> {}]
    /\ readFails = {}

\* --------------------------------------------------------- initial states
Init ==
    /\ runner \in {"pool", "promiseAll"}
    /\ useParallel \in BOOLEAN
    /\ maxWorkers \in 0..MaxWorkersCfg
    /\ (runner = "promiseAll" \/ ~useParallel) => maxWorkers = 0
    /\ factory \in [Keys -> {"absent", "valid", "invalid"}]
    /\ dir \in Directories
    /\ mkdirFails \in BOOLEAN
    /\ mkdirFails => dir = [n \in Keys |-> AbsentFile]
    /\ keyOf = [f \in Keys |-> f]
    /\ staleBefore = {n \in Keys : dir[n] = EntityDocument(n, "old") /\ n \notin jsFiles}
    /\ db = NoDb
    /\ pc = "start"
    /\ taskQueue = <<>>
    /\ activeWorkers = {}
    /\ results = <<>>
    /\ resolved = FALSE
    /\ wstate = [f \in Keys |-> "none"]
    /\ msg = [f \in Keys |-> "none"]
    /\ settled = [f \in Keys |-> "none"]
    /\ succeeded = <<>>
    /\ failed = <<>>
    /\ remaining = <<>>
    /\ factoryKeys = {}
    /\ todo = <<>>
    /\ mergedData = EmptyObject
    /\ deleted = {}
    /\ mergeRun = 1
    /\ firstRun = [db |-> NoDb, deleted |-> {}]
    /\ NoCall

\* ------------------------------------------------------------ worker pool
\* const workerCount = Math.min(maxWorkers, files.length)
workerCount == Min(maxWorkers, Cardinality(jsFiles))

\* runFactoryFiles of the pool runner in parallel mode: await
\* ensureDirectoryExists(dbDir), whose rejection main answers with process.exit(1),
\* then runWithWorkers(filePaths, maxWorkers) up to the end of the promise executor
PoolRunFactoryFiles ==
    /\ pc = "start"
    /\ runner = "pool"
    /\ useParallel
    /\ IF mkdirFails
       THEN /\ pc' = "failed"
            /\ UNCHANGED <<taskQueue, activeWorkers, wstate, resolved>>
       ELSE LET files == SortedSeq(jsFiles)
                initialBatch == SubSeq(files, 1, workerCount)
            IN /\ taskQueue' = SubSeq(files, workerCount + 1, Len(files))
               /\ activeWorkers' = Range(initialBatch)
               /\ wstate' = [f \in Keys |->
                               IF f \in Range(initialBatch) THEN "running" ELSE wstate[f]]
               /\ resolved' = (Len(initialBatch) = 0)
               /\ pc' = "generate"
    /\ UNCHANGED <<configVars, dir, db, results, msg, promiseVars, remaining,
                   mergeVars>>

\* workerCompleteHandler that reads taskQueue[0] and leaves it in the queue
workerCompleteHandlerNoShift(worker, newState) ==
    /\ IF taskQueue # <<>>
       THEN /\ activeWorkers' = (activeWorkers \ {worker}) \cup {Head(taskQueue)}
            /\ wstate' = [f \in Keys |->
                            IF f = Head(taskQueue) THEN "running"
                            ELSE IF f = worker THEN newState ELSE wstate[f]]
            /\ UNCHANGED <<taskQueue, resolved>>
       ELSE /\ activeWorkers' = activeWorkers \ {worker}
            /\ resolved' = (resolved \/ activeWorkers \ {worker} = {})
            /\ wstate' = [wstate EXCEPT ![worker] = newState]
            /\ UNCHANGED taskQueue

\* workerCompleteHandler(worker), with the startWorker(nextFile) it calls; the
\* worker's own next state is newState
workerCompleteHandler(worker, newState) ==
    /\ IF taskQueue # <<>>
       THEN /\ taskQueue' = Tail(taskQueue)
            /\ activeWorkers' = (activeWorkers \ {worker}) \cup {Head(taskQueue)}
            /\ wstate' = [f \in Keys |->
                            IF f = Head(taskQueue) THEN "running"
                            ELSE IF f = worker THEN newState ELSE wstate[f]]
            /\ UNCHANGED resolved
       ELSE /\ activeWorkers' = activeWorkers \ {worker}
            /\ resolved' = (resolved \/ activeWorkers \ {worker} = {})
            /\ wstate' = [wstate EXCEPT ![worker] = newState]
            /\ UNCHANGED taskQueue

\* the worker thread: import succeeded, parentPort.postMessage({status:
\* 'completed'}).  monFactory.create has called writeJsonFile(filePath, data, true)
\* without awaiting it: the document is written, or, dbDir missing, writeFileSync
\* threw inside it and only its promise is rejected
WorkerPostsCompleted(w) ==
    /\ wstate[w] = "running"
    /\ msg[w] = "none"
    /\ factory[w] = "valid"
    /\ msg' = [msg EXCEPT ![w] = "completed"]
    /\ dir' = IF mkdirFails THEN dir
              ELSE [dir EXCEPT ![keyOf[w]] = EntityDocument(keyOf[w], "new")]

\* the worker thread: the import threw (createMockData rejects the descriptor),
\* parentPort.postMessage({status: 'error'})
WorkerPostsError(w) ==
    /\ wstate[w] = "running"
    /\ msg[w] = "none"
    /\ factory[w] = "invalid"
    /\ msg' = [msg EXCEPT ![w] = "error"]
    /\ UNCHANGED dir

\* the worker thread throws an uncaught exception, before or after its message
WorkerThrows(w) ==
    /\ wstate[w] = "running"
    /\ UNCHANGED <<msg, dir>>

\* the exit code of a worker thread that ends now
ExitCode(w) == IF wstate[w] = "errored" \/ msg[w] = "none" THEN 1 ELSE 0

\* the worker thread ends: after its message with code 0, otherwise non-zero
WorkerEnds(w) ==
    /\ wstate[w] \in {"running", "errored"}
    /\ wstate' = [wstate EXCEPT ![w] = IF ExitCode(w) # 0 THEN "crashed" ELSE "exited"]
    /\ UNCHANGED <<msg, dir>>

\* worker.on('message') of startWorker, status 'completed'
PoolWorkerCompleted(w) ==
    /\ runner = "pool"
    /\ WorkerPostsCompleted(w)
    /\ results' = Append(results, w)
    /\ workerCompleteHandler(w, "running")
    /\ UNCHANGED <<configVars, db, pc, promiseVars, remaining, mergeVars>>

\* worker.on('message') of startWorker, status 'error': no branch takes it
PoolWorkerErrorStatus(w) ==
    /\ runner = "pool"
    /\ WorkerPostsError(w)
    /\ UNCHANGED <<configVars, db, pc, poolVars, wstate, promiseVars,
                   remaining, mergeVars>>

\* worker.on('error') of startWorker
PoolWorkerError(w) ==
    /\ runner = "pool"
    /\ WorkerThrows(w)
    /\ workerCompleteHandler(w, "errored")
    /\ UNCHANGED <<configVars, db, pc, results, promiseVars, remaining, mergeVars>>

\* worker.on('exit') of startWorker: logs a non-zero code
PoolWorkerExit(w) ==
    /\ runner = "pool"
    /\ WorkerEnds(w)
    /\ UNCHANGED <<configVars, db, pc, poolVars, promiseVars, remaining, mergeVars>>

\* await runWithWorkers(filePaths, maxWorkers) returns
PoolReturns ==
    /\ pc = "generate"
    /\ runner = "pool"
    /\ resolved
    /\ pc' = "merge"
    /\ UNCHANGED <<configVars, dir, db, poolVars, workerVars, promiseVars, remaining,
                   mergeVars>>

\* for (const filePath of filePaths) await import(filePath), pool runner
PoolRunSequentially ==
    /\ pc = "start"
    /\ runner = "pool"
    /\ ~useParallel
    /\ IF mkdirFails
       THEN pc' = "failed" /\ UNCHANGED remaining
       ELSE remaining' = SortedSeq(jsFiles) /\ pc' = "sequential"
    /\ UNCHANGED <<configVars, dir, db, poolVars, workerVars, promiseVars, mergeVars>>

\* one await import(filePath) of the pool runner's loop: a throw leaves the loop,
\* runFactoryFiles rethrows and main calls process.exit(1)
PoolSequentialStep ==
    /\ pc = "sequential"
    /\ runner = "pool"
    /\ remaining # <<>>
    /\ LET file == Head(remaining)
       IN IF factory[file] = "valid"
          THEN /\ dir' = [dir EXCEPT ![keyOf[file]] = EntityDocument(keyOf[file], "new")]
               /\ msg' = [msg EXCEPT ![file] = "completed"]
               /\ UNCHANGED pc
          ELSE /\ msg' = [msg EXCEPT ![file] = "error"]
               /\ pc' = "failed"
               /\ UNCHANGED dir
    /\ remaining' = Tail(remaining)
    /\ UNCHANGED <<configVars, db, poolVars, wstate, promiseVars, mergeVars>>

\* the sequential loop is over, runFactoryFiles returns
SequentialReturns ==
    /\ pc = "sequential"
    /\ remaining = <<>>
    /\ pc' = "merge"
    /\ UNCHANGED <<configVars, dir, db, poolVars, workerVars, promiseVars, remaining,
                   mergeVars>>

\* ----------------------------------------------------- Promise.all runner
\* fileUtils.cleanDirectory(dbDir): every .json file is unlinked
cleanDirectory == [n \in Keys |-> AbsentFile]

\* runFactoryFiles of runner.js in parallel mode, up to await Promise.all(promises):
\* one processFileWithWorker per factory file
RunnerRunFactoryFiles ==
    /\ pc = "start"
    /\ runner = "promiseAll"
    /\ useParallel
    /\ dir' = cleanDirectory
    /\ wstate' = [f \in Keys |-> IF f \in jsFiles THEN "running" ELSE wstate[f]]
    /\ settled' = [f \in Keys |-> IF f \in jsFiles THEN "pending" ELSE settled[f]]
    /\ pc' = "generate"
    /\ UNCHANGED <<configVars, db, poolVars, msg, succeeded, failed, remaining,
                   mergeVars>>

\* runFactoryFiles of runner.js in sequential mode, up to the for-loop
RunnerRunSequentially ==
    /\ pc = "start"
    /\ runner = "promiseAll"
    /\ ~useParallel
    /\ dir' = cleanDirectory
    /\ remaining' = SortedSeq(jsFiles)
    /\ pc' = "sequential"
    /\ UNCHANGED <<configVars, db, poolVars, workerVars, promiseVars, mergeVars>>

\* one iteration of the for-loop of runner.js: try { await processFileDirect } catch
RunnerSequentialStep ==
    /\ pc = "sequential"
    /\ runner = "promiseAll"
    /\ remaining # <<>>
    /\ LET file == Head(remaining)
       IN IF factory[file] = "valid"
          THEN /\ dir' = IF mkdirFails THEN dir
                         ELSE [dir EXCEPT ![keyOf[file]] =
                                                EntityDocument(keyOf[file], "new")]
               /\ msg' = [msg EXCEPT ![file] = "completed"]
               /\ succeeded' = Append(succeeded, file)
               /\ UNCHANGED failed
          ELSE /\ msg' = [msg EXCEPT ![file] = "error"]
               /\ failed' = Append(failed, file)
               /\ UNCHANGED <<dir, succeeded>>
    /\ remaining' = Tail(remaining)
    /\ UNCHANGED <<configVars, db, pc, poolVars, wstate, settled, mergeVars>>

\* resolve(message.result) and the .then of runFactoryFiles
Resolve(w) ==
    IF settled[w] = "pending"
    THEN /\ settled' = [settled EXCEPT ![w] = "resolved"]
         /\ succeeded' = Append(succeeded, w)
         /\ UNCHANGED failed
    ELSE UNCHANGED promiseVars

\* reject(error) and the .catch of runFactoryFiles
Reject(w) ==
    IF settled[w] = "pending"
    THEN /\ settled' = [settled EXCEPT ![w] = "rejected"]
         /\ failed' = Append(failed, w)
         /\ UNCHANGED succeeded
    ELSE UNCHANGED promiseVars

\* worker.on('message') of processFileWithWorker, status 'completed'
PromiseWorkerCompleted(w) ==
    /\ runner = "promiseAll"
    /\ WorkerPostsCompleted(w)
    /\ Resolve(w)
    /\ UNCHANGED <<configVars, db, pc, poolVars, wstate, remaining, mergeVars>>

\* worker.on('message') of processFileWithWorker, status 'error'
PromiseWorkerErrorStatus(w) ==
    /\ runner = "promiseAll"
    /\ WorkerPostsError(w)
    /\ Reject(w)
    /\ UNCHANGED <<configVars, db, pc, poolVars, wstate, remaining, mergeVars>>

\* worker.on('error', reject)
PromiseWorkerError(w) ==
    /\ runner = "promiseAll"
    /\ WorkerThrows(w)
    /\ wstate' = [wstate EXCEPT ![w] = "errored"]
    /\ Reject(w)
    /\ UNCHANGED <<configVars, db, pc, poolVars, remaining, mergeVars>>

\* worker.on('exit') of processFileWithWorker: rejects on a non-zero code
PromiseWorkerExit(w) ==
    /\ runner = "promiseAll"
    /\ WorkerEnds(w)
    /\ IF ExitCode(w) # 0 THEN Reject(w) ELSE UNCHANGED promiseVars
    /\ UNCHANGED <<configVars, db, pc, poolVars, remaining, mergeVars>>

\* await Promise.all(promises) returns
PromiseAllReturns ==
    /\ pc = "generate"
    /\ runner = "promiseAll"
    /\ \A f \in jsFiles : settled[f] \in {"resolved", "rejected"}
    /\ pc' = "merge"
    /\ UNCHANGED <<configVars, dir, db, poolVars, workerVars, promiseVars, remaining,
                   mergeVars>>

\* runFactoryFiles of runner.js calls ensureDirectoryExists(dbDir) without await: its
\* rejection is handled by nobody, and when Node processes it the process ends with
\* exit code 1 (the default of --unhandled-rejections) at whatever point main has
\* reached; under --unhandled-rejections=warn this step never happens
UnhandledRejection ==
    /\ runner = "promiseAll"
    /\ mkdirFails
    /\ pc \in {"start", "generate", "sequential", "merge", "mergeLoop"}
    /\ pc' = "failed"
    /\ UNCHANGED <<configVars, dir, db, poolVars, workerVars, promiseVars, remaining,
                   mergeVars>>

\* ------------------------------------------------------------------ merge
\* readFile(path.join(FACTORY_FOLDER, file)) resolves
Readable(file) == factory[file] # "absent" /\ file \notin readFails

\* extractFactoryKeys of runner.js:244-265: the keys, or Throw; every failure is
\* logged and rethrown
extractFactoryKeysRethrow ==
    IF listFails \/ \E file \in jsFiles : ~Readable(file)
    THEN Throw
    ELSE [t |-> "keys", keys |-> jsFiles]

\* extractFactoryKeys of runner.js:349-393: a listing failure falls back to
\* process.cwd()/factory, a file that cannot be read is skipped, any other
\* failure gives the empty set
extractFactoryKeysFallback ==
    LET files == IF ~listFails THEN jsFiles ELSE cwdFiles.files
    IN IF listFails /\ ~cwdFiles.ok
       THEN [t |-> "keys", keys |-> {}]
       ELSE [t |-> "keys", keys |-> {file \in files : Readable(file)}]

\* extractFactoryKeys(): the key literal of every factory file that is listed and
\* read, or Throw
extractFactoryKeys ==
    IF core = "rethrow" THEN extractFactoryKeysRethrow ELSE extractFactoryKeysFallback

\* mergeJsonFiles of the pool runner up to its for-loop
PoolMergeBegin ==
    /\ pc = "merge"
    /\ runner = "pool"
    /\ IF extractFactoryKeys.t = "throw"
       THEN /\ pc' = "failed"
            /\ UNCHANGED <<factoryKeys, todo, mergedData>>
       ELSE /\ factoryKeys' = extractFactoryKeys.keys
            /\ todo' = SortedSeq(jsonFiles)
            /\ mergedData' = EmptyObject
            /\ pc' = "mergeLoop"
    /\ UNCHANGED <<configVars, dir, db, poolVars, workerVars, promiseVars, remaining,
                   deleted, mergeRun, firstRun>>

\* a merge that keeps every document, whatever the extracted keys
mergeKeepsAll(fileData, keys) == TRUE

\* const fileKey = Object.keys(fileData)[0]; factoryKeys.has(fileKey)
mergeKeeps(fileData, keys) == fileData.first \in keys

\* mergeFold with the spread moved in front of the factoryKeys.has test
mergeFoldUnchecked(merged, fileData, keys) == Spread(merged, fileData.data)

\* the mergedData after one file of the loop
mergeFold(merged, fileData, keys) ==
    IF mergeKeeps(fileData, keys) THEN Spread(merged, fileData.data) ELSE merged

\* one iteration of the for-loop of the pool runner's mergeJsonFiles; readJsonFile
\* throws on a file that does not parse, mergeJsonFiles rethrows, main exits 1
PoolMergeFile ==
    /\ pc = "mergeLoop"
    /\ runner = "pool"
    /\ todo # <<>>
    /\ LET file == Head(todo)
           fileData == dir[file]
       IN IF fileData.kind # "json"
          THEN /\ pc' = "failed"
               /\ UNCHANGED <<dir, mergedData, deleted>>
          ELSE /\ mergedData' = mergeFold(mergedData, fileData, factoryKeys)
               /\ IF mergeKeeps(fileData, factoryKeys)
                  THEN UNCHANGED <<dir, deleted>>
                  ELSE /\ dir' = [dir EXCEPT ![file] = AbsentFile]
                       /\ deleted' = deleted \cup {[name |-> file, doc |-> fileData]}
               /\ UNCHANGED pc
    /\ todo' = Tail(todo)
    /\ UNCHANGED <<configVars, db, poolVars, workerVars, promiseVars, remaining,
                   factoryKeys, mergeRun, firstRun>>

\* writeJsonFile(outputFile, mergedData) after the loop
PoolMergeWrite ==
    /\ pc = "mergeLoop"
    /\ runner = "pool"
    /\ todo = <<>>
    /\ db' = [written |-> TRUE, data |-> mergedData]
    /\ pc' = "done"
    /\ UNCHANGED <<configVars, dir, poolVars, workerVars, promiseVars, remaining,
                   mergeVars>>

\* main of runner.js: keys = await extractFactoryKeys(), then
\* fileUtils.mergeJsonFiles(dbDir, outputFile, Array.from(keys)) up to its for-loop
RunnerMergeBegin ==
    /\ pc = "merge"
    /\ runner = "promiseAll"
    /\ IF extractFactoryKeys.t = "throw"
       THEN /\ pc' = "failed"
            /\ UNCHANGED <<factoryKeys, todo, mergedData>>
       ELSE /\ factoryKeys' = extractFactoryKeys.keys
            /\ todo' = SortedSeq(extractFactoryKeys.keys)
            /\ mergedData' = EmptyObject
            /\ pc' = "mergeLoop"
    /\ UNCHANGED <<configVars, dir, db, poolVars, workerVars, promiseVars, remaining,
                   deleted, mergeRun, firstRun>>

\* the result after one key of the loop of fileUtils.mergeJsonFiles: existsSync,
\* JSON.parse inside the inner try, data && data[key]
mergeKey(result, key, fileData) ==
    IF fileData.kind = "json" /\ key \in DOMAIN fileData.data
    THEN Spread(result, [k \in {key} |-> fileData.data[key]])
    ELSE result

\* one iteration of the for-loop of fileUtils.mergeJsonFiles
RunnerMergeKey ==
    /\ pc = "mergeLoop"
    /\ runner = "promiseAll"
    /\ todo # <<>>
    /\ mergedData' = mergeKey(mergedData, Head(todo), dir[Head(todo)])
    /\ todo' = Tail(todo)
    /\ UNCHANGED <<configVars, dir, db, pc, poolVars, workerVars, promiseVars,
                   remaining, factoryKeys, deleted, mergeRun, firstRun>>

\* writeJsonFile(outputFile, result, true) after the loop
RunnerMergeWrite ==
    /\ pc = "mergeLoop"
    /\ runner = "promiseAll"
    /\ todo = <<>>
    /\ db' = [written |-> TRUE, data |-> mergedData]
    /\ pc' = "done"
    /\ UNCHANGED <<configVars, dir, poolVars, workerVars, promiseVars, remaining,
                   mergeVars>>

\* merge is called a second time on the directory as the first call left it
MergeAgain ==
    /\ pc \in {"done", "failed"}
    /\ mergeRun = 1
    /\ mergeRun' = 2
    /\ firstRun' = [db |-> db, deleted |-> deleted]
    /\ deleted' = {}
    /\ pc' = "merge"
    /\ UNCHANGED <<configVars, dir, db, poolVars, workerVars, promiseVars, remaining,
                   factoryKeys, todo, mergedData>>

\* ---------------------------------------------------------- specifications
Generate ==
    \/ PoolRunFactoryFiles
    \/ \E w \in Keys : PoolWorkerCompleted(w)
    \/ \E w \in Keys : PoolWorkerErrorStatus(w)
    \/ \E w \in Keys : PoolWorkerError(w)
    \/ \E w \in Keys : PoolWorkerExit(w)
    \/ PoolReturns
    \/ PoolRunSequentially
    \/ PoolSequentialStep
    \/ SequentialReturns
    \/ RunnerRunFactoryFiles
    \/ RunnerRunSequentially
    \/ RunnerSequentialStep
    \/ \E w \in Keys : PromiseWorkerCompleted(w)
    \/ \E w \in Keys : PromiseWorkerErrorStatus(w)
    \/ \E w \in Keys : PromiseWorkerError(w)
    \/ \E w \in Keys : PromiseWorkerExit(w)
    \/ PromiseAllReturns
    \/ UnhandledRejection

Merge ==
    \/ PoolMergeBegin
    \/ PoolMergeFile
    \/ PoolMergeWrite
    \/ RunnerMergeBegin
    \/ RunnerMergeKey
    \/ RunnerMergeWrite

\* main(): generation, then merge
Next == Generate \/ Merge

Spec == Init /\ [][Next]_vars

\* a call of the exported merge on any directory and any factory folder
InitMerge ==
    /\ Init
    /\ useParallel
    /\ maxWorkers = 0
    /\ \A f \in Keys : factory[f] # "invalid"
    /\ ~mkdirFails

StartMerge ==
    /\ pc = "start"
    /\ pc' = "merge"
    /\ UNCHANGED <<configVars, dir, db, poolVars, workerVars, promiseVars, remaining,
                   mergeVars>>

NextMerge == StartMerge \/ Merge \/ MergeAgain

SpecMerge == InitMerge /\ [][NextMerge]_vars

\* ------------------------------------------------ calls of the factory API
MaxRepeat == 3
MaxKeyLen == 2
MaxLen == 2
MaxIndex == 1
SmallThreshold == 20

X == <<"x">>

Y == <<"y">>

KeyChars == {" ", "\t", "a"}

Strings(n) == UNION {[1..m -> KeyChars] : m \in 0..n}

\* what a descriptor may carry as _key
KeyValues == {Num(5), Undefined} \cup {Str(s) : s \in Strings(MaxKeyLen)}

\* what a descriptor or a template mapping may carry as _repeat
RepeatValues == {Num(n) : n \in -1..MaxRepeat} \cup {Half(1), Str(<<"2">>)}

\* no property name, or name with one of the values
Optional(name, values) == {<<>>} \cup {[k \in {name} |-> v] : v \in values}

Descriptors ==
    {Obj(Spread(a, b)) : a \in Optional(KEY, KeyValues), b \in Optional(REPEAT, RepeatValues)}

\* template functions: (i) => ({x: i}), one that sets its own id, one that
\* returns a _repeat of its own, one with a nested mapping that carries _repeat
TemplateFns ==
    {Fn(Obj([k \in {X} |-> IndexArg])),
     Fn(Obj(Spread([k \in {X} |-> IndexArg], [k \in {ID} |-> Num(9)]))),
     Fn(Obj(Spread([k \in {X} |-> IndexArg], [k \in {REPEAT} |-> Num(2)]))),
     Fn(Obj([k \in {Y} |->
               Obj(Spread([k2 \in {X} |-> IndexArg], [k2 \in {REPEAT} |-> Num(3)]))]))}

\* a scalar, (i) => i, a generator that returns a _repeat of its own, one that
\* returns an id of its own
Leaves ==
    {Num(7), Fn(IndexArg),
     Fn(Obj(Spread([k \in {X} |-> IndexArg], [k \in {REPEAT} |-> Num(2)]))),
     Fn(Obj([k \in {ID} |-> Num(9)]))}

\* { x: leaf } with or without _repeat
Mappings ==
    {Obj(Spread([k \in {X} |-> l], r)) : l \in Leaves, r \in Optional(REPEAT, RepeatValues)}

\* the elements of a sequence template: a leaf, { x: (i) => i } with or without
\* _repeat, a nested sequence
Elements ==
    Leaves
    \cup {Obj(Spread([k \in {X} |-> Fn(IndexArg)], r)) : r \in Optional(REPEAT, RepeatValues)}
    \cup {Arr(<<>>), Arr(<<Num(7), Fn(IndexArg)>>)}

SequenceTemplates == UNION {{Arr(e) : e \in [1..m -> Elements]} : m \in 0..MaxLen}

\* { y: mapping or sequence } with or without _repeat
NestedMappings ==
    {Obj(Spread([k \in {Y} |-> c], r)) :
        c \in Mappings \cup {Arr(<<m>>) : m \in Mappings},
        r \in Optional(REPEAT, RepeatValues)}

Templates == Leaves \cup Mappings \cup SequenceTemplates \cup NestedMappings

\* the configurations mock-config.json can set up
Settings ==
    [defaultRepeat : {Num(defaultRepeat), Num(0)},
     entities : {<<>>, [k \in {<<"a">>} |-> Num(2)]},
     useStreaming : BOOLEAN,
     streamingThreshold : {streamingThreshold, SmallThreshold}]

StreamValues == {Num(1), Str(<<"a">>), Obj([k \in {X} |-> Num(1)]), Arr(<<Num(1)>>)}

StreamData ==
    {Obj(Spread(Spread(a, b), c)) :
        a \in Optional(ID, StreamValues), b \in Optional(X, StreamValues),
        c \in Optional(Y, StreamValues)}
    \cup UNION {{Arr(e) : e \in [1..m -> StreamValues]} : m \in 0..MaxLen}

\* main is not running
RunIdle ==
    /\ db = NoDb
    /\ pc = "start"
    /\ taskQueue = <<>>
    /\ activeWorkers = {}
    /\ results = <<>>
    /\ resolved = FALSE
    /\ wstate = [f \in Keys |-> "none"]
    /\ msg = [f \in Keys |-> "none"]
    /\ settled = [f \in Keys |-> "none"]
    /\ succeeded = <<>>
    /\ failed = <<>>
    /\ remaining = <<>>
    /\ factoryKeys = {}
    /\ todo = <<>>
    /\ mergedData = EmptyObject
    /\ deleted = {}
    /\ mergeRun = 1
    /\ firstRun = [db |-> NoDb, deleted |-> {}]

NoRun ==
    /\ runner = "promiseAll"
    /\ useParallel = TRUE
    /\ maxWorkers = 0
    /\ factory = [f \in Keys |-> "absent"]
    /\ dir = [n \in Keys |-> AbsentFile]
    /\ staleBefore = {}
    /\ mkdirFails = FALSE
    /\ keyOf = [f \in Keys |-> f]
    /\ RunIdle

NoKeyFaults ==
    /\ core = "fallback"
    /\ listFails = FALSE
    /\ cwdFiles = [ok |-> FALSE, files |-> {}]
    /\ readFails = {}

NoWrite ==
    /\ NotLoaded
    /\ returned = Undefined
    /\ outFile = NoFile
    /\ jsonStream = NoStream
    /\ promise = "none"

runVars == <<runner, useParallel, maxWorkers, factory, dir, staleBefore, db, pc,
             poolVars, workerVars, promiseVars, remaining, mergeVars, mkdirFails,
             keyOf>>

\* a call of processTemplate or generateData
InitTemplate ==
    /\ NoRun /\ NoKeyFaults /\ NoWrite
    /\ called \in {"processTemplate", "generateData"}
    /\ argTemplate \in Templates
    /\ argIndex \in 0..MaxIndex
    /\ argConfig = Undefined
    /\ settings = DefaultSettings

\* a call of createMockData, or of monFactory.create under some configuration
\* a call of createMockData or of monFactory.create, with dbDir empty or holding
\* the Entity Document of an earlier run
InitCreate ==
    /\ runner = "promiseAll"
    /\ useParallel = TRUE
    /\ maxWorkers = 0
    /\ factory = [f \in Keys |-> "absent"]
    /\ dir \in {[n \in Keys |-> AbsentFile],
                 [n \in Keys |-> IF n = 1 THEN EntityDocument(n, "old") ELSE AbsentFile]}
    /\ staleBefore = {}
    /\ mkdirFails = FALSE
    /\ keyOf = [f \in Keys |-> f]
    /\ RunIdle
    /\ NoKeyFaults /\ NoWrite
    /\ called \in {"createMockData", "create"}
    /\ argConfig \in Descriptors
    /\ argTemplate \in TemplateFns
    /\ argIndex = 0
    /\ settings \in Settings
    /\ called = "createMockData" => settings = DefaultSettings

\* a call of one of the four exported functions, or monFactory.create called as
\* README.md and factory/company.js do, with the one argument
\* { _key, _template: { ..., _repeat: n } } and no templateFn
InitFactory ==
    \/ InitTemplate
    \/ InitCreate
    \/ /\ NoRun /\ NoKeyFaults /\ NoWrite
       /\ called = "createOneArgument"
       /\ argConfig \in
            {Obj((KEY :> Str(<<"a">>))
                 @@ (TEMPLATE :> Obj((X :> Num(7)) @@ (REPEAT :> Num(n))))) :
                n \in 1..MaxRepeat}
       /\ argTemplate = Undefined
       /\ argIndex = 0
       /\ settings \in Settings

ProcessTemplateCall ==
    /\ called = "processTemplate"
    /\ returned = Undefined
    /\ returned' = processTemplate(argTemplate, argIndex)
    /\ UNCHANGED <<runVars, callVars, streamVars, keyVars>>

GenerateDataCall ==
    /\ called = "generateData"
    /\ returned = Undefined
    /\ returned' = generateData(argTemplate, argIndex)
    /\ UNCHANGED <<runVars, callVars, streamVars, keyVars>>

CreateMockDataCall ==
    /\ called = "createMockData"
    /\ returned = Undefined
    /\ returned' = createMockData(argConfig, argTemplate)
    /\ UNCHANGED <<runVars, callVars, streamVars, keyVars>>

\* a create that writes the file before createMockData has validated and expanded
CreateWritesFirst ==
    /\ called \in {"create", "createOneArgument"}
    /\ returned = Undefined
    /\ LET created == createMockData(effectiveConfig(argConfig), argTemplate)
           key == IF In(KEY, argConfig) /\ argConfig.f[KEY].t = "str"
                  THEN argConfig.f[KEY].s
                  ELSE <<>>
       IN /\ writeJsonFile(filePath(key), Obj(<<>>))
          /\ returned' = IF created.t = "throw" THEN Throw ELSE created.f[DataProp]
    /\ UNCHANGED <<runVars, callVars, keyVars>>

\* monFactory.create(config, templateFn)
Create ==
    /\ called \in {"create", "createOneArgument"}
    /\ returned = Undefined
    /\ LET created == createMockData(effectiveConfig(argConfig), argTemplate)
       IN IF created.t = "throw"
          THEN /\ returned' = Throw
               /\ UNCHANGED streamVars
          ELSE LET key == created.f[KeyProp].s
                   data == created.f[DataProp]
                   useStreaming ==
                       /\ settings.useStreaming
                       /\ shouldUseStreaming(data, settings.streamingThreshold)
               IN /\ IF useStreaming
                     THEN streamJsonToFile(filePath(key), data)
                     ELSE writeJsonFile(filePath(key), data)
                  /\ returned' = data
    /\ UNCHANGED <<runVars, callVars, keyVars>>

\* fileStream.on('error', reject): the file cannot be opened or written
FileStreamError ==
    /\ promise = "pending"
    /\ promise' = "rejected"
    /\ UNCHANGED <<runVars, callVars, returned, outFile, jsonStream, keyVars>>

NextFactory ==
    \/ ProcessTemplateCall
    \/ GenerateDataCall
    \/ CreateMockDataCall
    \/ Create
    \/ FileStreamError

\* a call of any of the four exported functions
SpecFactory == InitFactory /\ [][NextFactory]_vars

NextCreate == CreateMockDataCall \/ Create \/ FileStreamError

\* a call of createMockData or of monFactory.create
SpecCreate == InitCreate /\ [][NextCreate]_vars

\* a call of streamJsonToFile(path, data)
InitStream ==
    /\ NoRun /\ NoKeyFaults /\ NoWrite
    /\ called = "streamJsonToFile"
    /\ argTemplate \in StreamData
    /\ argIndex = 0
    /\ argConfig = Undefined
    /\ settings = DefaultSettings

StreamJsonToFileCall ==
    /\ called = "streamJsonToFile"
    /\ promise = "none"
    /\ streamJsonToFile(<<"d", "b">> \o JsonExt, argTemplate)
    /\ UNCHANGED <<runVars, callVars, returned, keyVars>>

NextStream == StreamJsonToFileCall \/ FileStreamError

\* the call is made; an I/O error may or may not happen
SpecStream == InitStream /\ [][NextStream]_vars /\ WF_vars(StreamJsonToFileCall)

\* ----------------------------------------------------------- key extraction
\* a call of extractFactoryKeys on a factory folder with read failures
InitKeys ==
    /\ runner = "promiseAll"
    /\ useParallel = TRUE
    /\ maxWorkers = 0
    /\ factory \in [Keys -> {"absent", "valid"}]
    /\ dir = [n \in Keys |-> AbsentFile]
    /\ staleBefore = {}
    /\ mkdirFails = FALSE
    /\ keyOf = [f \in Keys |-> f]
    /\ RunIdle
    /\ NoWrite
    /\ called = "extractFactoryKeys"
    /\ argConfig = Undefined
    /\ argTemplate = Undefined
    /\ argIndex = 0
    /\ settings = DefaultSettings
    /\ core \in {"rethrow", "fallback"}
    /\ listFails \in BOOLEAN
    /\ cwdFiles \in [ok : BOOLEAN, files : SUBSET Keys]
    /\ cwdFiles.ok = FALSE => cwdFiles.files = {}
    /\ listFails = FALSE => cwdFiles.ok = FALSE
    /\ readFails \in SUBSET Keys

ExtractFactoryKeysCall ==
    /\ called = "extractFactoryKeys"
    /\ pc = "start"
    /\ IF extractFactoryKeys.t = "throw"
       THEN pc' = "failed" /\ UNCHANGED factoryKeys
       ELSE pc' = "done" /\ factoryKeys' = extractFactoryKeys.keys
    /\ UNCHANGED <<configVars, dir, db, poolVars, workerVars, promiseVars, remaining,
                   todo, mergedData, deleted, mergeRun, firstRun>>

SpecKeys == InitKeys /\ [][ExtractFactoryKeysCall]_vars

\* ------------------------------------------------------------ the pool alone
\* runWithWorkers on any factory folder, where the last file may pass the _key of
\* the first one to monFactory.create; dbDir exists and is empty
InitPool ==
    /\ runner = "pool"
    /\ useParallel = TRUE
    /\ maxWorkers \in 0..MaxWorkersCfg
    /\ factory \in [Keys -> {"absent", "valid", "invalid"}]
    /\ dir = [n \in Keys |-> AbsentFile]
    /\ staleBefore = {}
    /\ mkdirFails = FALSE
    /\ keyOf \in {[f \in Keys |-> f], [f \in Keys |-> IF f = NumFiles THEN 1 ELSE f]}
    /\ RunIdle
    /\ NoCall

NextPool ==
    \/ PoolRunFactoryFiles
    \/ \E w \in Keys : PoolWorkerCompleted(w)
    \/ \E w \in Keys : PoolWorkerErrorStatus(w)
    \/ \E w \in Keys : PoolWorkerError(w)
    \/ \E w \in Keys : PoolWorkerExit(w)
    \/ PoolReturns

SpecPool == InitPool /\ [][NextPool]_vars

\* the configManager alone: an environment, a mock-config.json (none, one that
\* sets some values, one whose "factory" is a number), and a program that calls
\* load any number of times and then get(path)
InitConfig ==
    /\ NoRun /\ NoKeyFaults
    /\ returned = Undefined /\ outFile = NoFile /\ jsonStream = NoStream /\ promise = "none"
    /\ called \in {"load", "get"}
    /\ argConfig = Undefined
    /\ argTemplate = Undefined
    /\ argIndex = 0
    /\ settings = DefaultSettings
    /\ env \in
        {[server |-> Spread(Spread(a, b), c), entity |-> d] :
            a \in Optional("MOCK_SERVER_DEFAULT_REPEAT", {<<"7">>, <<"7", "x">>, <<"x">>, <<>>}),
            b \in Optional("MOCK_SERVER_USE_STREAMING", {<<"T", "R", "U", "E">>, <<"n", "o">>}),
            c \in Optional("MOCK_SERVER_MAX_WORKERS", {<<"0">>}),
            d \in Optional(<<"A">>, {<<"3">>})}
    /\ userConfig \in
        {Obj(Spread(Spread(a, b), c)) :
            a \in Optional("factory",
                           {Obj([defaultRepeat |-> Num(0)]),
                            Obj([defaultRepeat |-> Num(2), useStreaming |-> Bool(FALSE)]),
                            Num(5)}),
            b \in Optional("processing", {Obj([maxWorkers |-> Num(2)])}),
            c \in Optional("entities", {Obj([k \in {<<"a">>} |-> Num(5)])})}
    /\ thisConfig = defaultConfig
    /\ loaded = FALSE
    /\ argPath \in {<<"factory", "defaultRepeat">>, <<"factory", "useStreaming">>,
                     <<"processing", "maxWorkers">>, <<"output", "pretty">>,
                     <<"entities", <<"a">>>>}

\* configManager.load(), followed by another load or by the get
Load ==
    /\ called = "load"
    /\ thisConfig' = loadedConfig
    /\ loaded' = TRUE
    /\ returned' = IF loaded THEN Undefined ELSE loadedConfig
    /\ called' \in {"load", "get"}
    /\ UNCHANGED <<runVars, argConfig, argTemplate, argIndex, settings, env, userConfig,
                   argPath, streamVars, keyVars>>

\* configManager.get(argPath)
GetCall ==
    /\ called = "get"
    /\ thisConfig' = loadedConfig
    /\ loaded' = TRUE
    /\ returned' = getFrom(loadedConfig, argPath)
    /\ called' = "done"
    /\ UNCHANGED <<runVars, argConfig, argTemplate, argIndex, settings, env, userConfig,
                   argPath, streamVars, keyVars>>

NextConfig == Load \/ GetCall

SpecConfig == InitConfig /\ [][NextConfig]_vars

\* ------------------------------------------------- merge after a faulty scan
\* main after a generation in which every task succeeded, dbDir holding the
\* documents of this run only, when the key extraction that follows meets a
\* listing failure or files it cannot read
InitScan ==
    /\ runner \in {"pool", "promiseAll"}
    /\ useParallel = TRUE
    /\ maxWorkers = IF runner = "pool" THEN MaxWorkersCfg ELSE 0
    /\ factory \in [Keys -> {"absent", "valid"}]
    /\ dir = [n \in Keys |->
                IF factory[n] = "valid" THEN EntityDocument(n, "new") ELSE AbsentFile]
    /\ staleBefore = {}
    /\ mkdirFails = FALSE
    /\ keyOf = [f \in Keys |-> f]
    /\ db = NoDb
    /\ pc = "merge"
    /\ taskQueue = <<>>
    /\ activeWorkers = {}
    /\ results = IF runner = "pool" THEN SortedSeq(jsFiles) ELSE <<>>
    /\ resolved = (runner = "pool")
    /\ wstate = [f \in Keys |-> IF f \in jsFiles THEN "exited" ELSE "none"]
    /\ msg = [f \in Keys |-> IF f \in jsFiles THEN "completed" ELSE "none"]
    /\ settled = [f \in Keys |->
                    IF runner = "promiseAll" /\ f \in jsFiles THEN "resolved" ELSE "none"]
    /\ succeeded = IF runner = "promiseAll" THEN SortedSeq(jsFiles) ELSE <<>>
    /\ failed = <<>>
    /\ remaining = <<>>
    /\ factoryKeys = {}
    /\ todo = <<>>
    /\ mergedData = EmptyObject
    /\ deleted = {}
    /\ mergeRun = 1
    /\ firstRun = [db |-> NoDb, deleted |-> {}]
    /\ NoWrite
    /\ called = "none"
    /\ argConfig = Undefined
    /\ argTemplate = Undefined
    /\ argIndex = 0
    /\ settings = DefaultSettings
    /\ core \in {"rethrow", "fallback"}
    /\ listFails \in BOOLEAN
    /\ cwdFiles \in [ok : BOOLEAN, files : SUBSET Keys]
    /\ cwdFiles.ok = FALSE => cwdFiles.files = {}
    /\ listFails = FALSE => cwdFiles.ok = FALSE
    /\ readFails \in SUBSET Keys

SpecScan == InitScan /\ [][Merge \/ MergeAgain]_vars

\* ------------------------------------------------------------ task states
\* Pending: a factory file whose task has not been started
Pending(f) == f \in jsFiles /\ wstate[f] = "none" /\ msg[f] = "none"

\* Running: started and not yet handled as terminal by the orchestrator
Running(f) == IF runner = "pool" THEN f \in activeWorkers ELSE settled[f] = "pending"

Terminal(f) == f \in jsFiles /\ ~Pending(f) /\ ~Running(f)

Faulted(f) == wstate[f] \in {"errored", "crashed"}

\* no worker thread can emit another event
NoThreadAlive == \A w \in Keys : wstate[w] \in {"none", "exited", "crashed"}

IsEntityDocument(doc) == doc.kind = "json" /\ DOMAIN doc.data = {doc.first}

\* ----------------------------------------------------------------- claims
\* C1: with N tasks and a concurrency limit k, 1 <= k < N, at most k tasks are
\* Running in every reachable state of the pool, whatever the workers emit.
C1_AtMostKRunning ==
    (runner = "pool" /\ useParallel /\ 1 <= maxWorkers
        /\ maxWorkers < Cardinality(jsFiles))
    => Cardinality(activeWorkers) <= maxWorkers

\* C2: a task failure never aborts the pool; every task reaches Completed or Failed
\* and the pool's promise resolves.  Stated on the states where no worker thread
\* can emit anything more: there the pool (limit k >= 1) must have resolved with
\* every task terminal, and every processFileWithWorker promise must be settled.
C2_PoolDrainsDespiteFailures ==
    (pc = "generate" /\ NoThreadAlive /\ (runner = "pool" => maxWorkers >= 1))
    => /\ \A f \in jsFiles : Terminal(f)
       /\ runner = "pool" => resolved

\* the tasks the finished generation reports as succeeded / Completed
Completed == IF runner = "pool" THEN results ELSE succeeded

\* the tasks the finished generation reports as Failed: workerUtils.js keeps no
\* such list
Failed == IF runner = "pool" THEN <<>> ELSE failed

\* C3: when the generation pool finishes (limit k >= 1), every one of the N tasks
\* is recorded exactly once, as Completed or as Failed: completed + failed = N.
C3_ExactlyNOutcomes ==
    (pc = "merge" /\ useParallel /\ (runner = "pool" => maxWorkers >= 1))
    => /\ Len(Completed) + Len(Failed) = Cardinality(jsFiles)
       /\ Range(Completed) \cup Range(Failed) = jsFiles
       /\ Range(Completed) \cap Range(Failed) = {}

\* C4: processing.maxWorkers = 0 means the available parallelism: when the pool
\* runner's runFactoryFiles has returned in parallel mode, the worker count was
\* min(available parallelism, N) and every factory file has been started.
C4_ZeroMeansAvailableParallelism ==
    (runner = "pool" /\ useParallel /\ maxWorkers = 0 /\ pc = "merge")
    => /\ workerCount = Min(Cpus, Cardinality(jsFiles))
       /\ \A f \in jsFiles : wstate[f] # "none"

\* C5: hard barrier: while merge reads, deletes or writes, no generation task is
\* Pending or Running.
C5_MergeAfterBarrier ==
    pc \in {"mergeLoop", "done"} => \A f \in jsFiles : ~Pending(f) /\ ~Running(f)

\* C6: if exactly one of N tasks fails validation (and no worker faults), then
\* when the run is over every other task has run and written its Entity Document
\* and its key is in the Consolidated Document of this run, in both modes.
C6_PartialFailureIsolation ==
    (/\ pc \in {"done", "failed"}
     /\ Cardinality({f \in jsFiles : factory[f] = "invalid"}) = 1
     /\ \A f \in jsFiles : ~Faulted(f))
    => \A g \in jsFiles : factory[g] = "valid"
          => /\ msg[g] = "completed"
             /\ dir[g] = EntityDocument(g, "new")
             /\ db.written
             /\ g \in DOMAIN db.data

\* C7: after a run, every stale Entity Document of before the run is gone from the
\* directory and its key is absent from the Consolidated Document, and merge has
\* deleted no Entity Document whose key is expected.
C7_StaleFilesRemoved ==
    pc = "done"
    => /\ \A n \in staleBefore : dir[n] = AbsentFile /\ n \notin DOMAIN db.data
       /\ \A d \in deleted : ~(IsEntityDocument(d.doc) /\ d.doc.first \in factoryKeys)

\* C8: after any merge the top-level keys of the Consolidated Document are the
\* expected keys; the clause checked: no key outside the expected set is written
\* into it, whatever the documents directory holds.
C8_NoKeyOutsideExpected ==
    pc = "done" => DOMAIN db.data \subseteq factoryKeys

\* C9: with exactly one malformed file in the documents directory, merge completes
\* without error, writes the Consolidated Document and folds every valid expected
\* Entity Document into it.
C9_ParseFailureNotFatal ==
    (pc \in {"done", "failed"} /\ Cardinality({n \in Keys : dir[n] = MalformedFile}) = 1)
    => /\ pc = "done"
       /\ db.written
       /\ \A n \in factoryKeys :
            (dir[n].kind = "json" /\ n \in DOMAIN dir[n].data) => n \in DOMAIN db.data

\* C10: merge is idempotent: a second merge call on the directory as the first
\* call left it, with the same expected keys, leaves the same Consolidated
\* Document and deletes no file.
C10_MergeIdempotent ==
    (mergeRun = 2 /\ pc \in {"done", "failed"})
    => /\ db = firstRun.db
       /\ deleted = {}

\* C10 witness: a second directory-scanning merge has written a non-empty
\* Consolidated Document after the first one deleted a stale file
C10_Witness ==
    /\ runner = "pool"
    /\ mergeRun = 2
    /\ pc = "done"
    /\ firstRun.deleted # {}
    /\ DOMAIN db.data # {}

\* ------------------------------------------------- claims on the factory API
\* the call has been made and returned a value
Returned == returned.t \notin {"undefined", "throw"}

CreateCalled == called \in {"createMockData", "create"}

\* the { [key]: data } document the create call built
Document == IF called = "create" THEN returned ELSE returned.f[DataProp]

\* the materialized record(s) under the descriptor's key
Records == Document.f[argConfig.f[KEY].s]

IsPositiveInteger(v) == v.t = "num" /\ ~v.frac /\ v.n >= 1

\* C11: a descriptor without _repeat, created through createMockData or through
\* monFactory.create under the default configuration, gives exactly one record, a
\* single mapping (not a sequence) with id = 1.  Stated for the generators that set
\* no id of their own; those that do are the matter of C12.
C11_SingleRecordWithoutRepeat ==
    (CreateCalled /\ Returned /\ ~In(REPEAT, argConfig) /\ settings = DefaultSettings
        /\ ~In(ID, argTemplate.ret))
    => /\ Records.t = "obj"
       /\ Records.f[ID] = Num(1)

\* C12: a descriptor with _repeat = n, n >= 1, and any generator (also one whose
\* object has an id of its own) gives a sequence of exactly n records whose ids are
\* 1, 2, ..., n in order; the record generateData builds for repetition index i
\* carries id i + 1.
C12_PositionalIds ==
    /\ (CreateCalled /\ Returned /\ In(REPEAT, argConfig)
            /\ IsPositiveInteger(argConfig.f[REPEAT]))
       => /\ Records.t = "arr"
          /\ Len(Records.e) = argConfig.f[REPEAT].n
          /\ \A i \in 1..Len(Records.e) : Records.e[i].f[ID] = Num(i)
    /\ (called = "generateData" /\ Returned) => returned.f[ID] = Num(argIndex + 1)

\* some mapping of the template, in a field or in a sequence element at any depth,
\* carries a _repeat that is not a positive integer
RECURSIVE InvalidRepeatInside(_)
InvalidRepeatInside(t) ==
    CASE t.t = "obj" ->
            \/ In(REPEAT, t) /\ ~IsPositiveInteger(t.f[REPEAT])
            \/ \E k \in (DOMAIN t.f) \ {REPEAT} : InvalidRepeatInside(t.f[k])
      [] t.t = "arr" -> \E i \in 1..Len(t.e) : InvalidRepeatInside(t.e[i])
      [] OTHER -> FALSE

\* the descriptor's _key is a string with a character that is not white space
IsValidKey(cfg) ==
    /\ In(KEY, cfg)
    /\ cfg.f[KEY].t = "str"
    /\ \E i \in 1..Len(cfg.f[KEY].s) : cfg.f[KEY].s[i] \notin {" ", "\t"}

\* C13: a _repeat that is present and not a positive integer (0, negative,
\* non-integer), in the descriptor or at any depth of a template, makes the
\* expansion fail; an absent _repeat is accepted.
C13_InvalidRepeatRejected ==
    /\ (CreateCalled /\ returned.t # "undefined" /\ In(REPEAT, argConfig)
            /\ ~IsPositiveInteger(argConfig.f[REPEAT]))
       => returned.t = "throw"
    /\ (called \in {"processTemplate", "generateData"} /\ returned.t # "undefined"
            /\ InvalidRepeatInside(argTemplate))
       => returned.t = "throw"
    /\ (CreateCalled /\ returned.t # "undefined" /\ ~In(REPEAT, argConfig)
            /\ IsValidKey(argConfig))
       => returned.t # "throw"

\* C14: creating an entity fails, and writes nothing, whenever _key is missing, not
\* a string, or empty or white space only; with any other string key the key check
\* passes: the call fails only for a negative _repeat.
C14_KeyValidation ==
    (CreateCalled /\ returned.t # "undefined")
    => /\ ~IsValidKey(argConfig) => (returned.t = "throw" /\ outFile = NoFile)
       /\ (IsValidKey(argConfig) /\ returned.t = "throw")
          => (In(REPEAT, argConfig) /\ LessThan(argConfig.f[REPEAT], 0))

\* C14 witness: monFactory.create has rejected a key of white space only
C14_Witness ==
    /\ called = "create"
    /\ In(KEY, argConfig)
    /\ argConfig.f[KEY] = Str(<<"\t", " ">>)
    /\ returned.t = "throw"

\* a 3-element sub-sequence whose sub-records carry ids 1, 2, 3 and are expanded
\* with the repetition indices 0, 1, 2
IsSubSequence(v) ==
    /\ v.t = "arr"
    /\ Len(v.e) = 3
    /\ \A j \in 1..3 : v.e[j].f[ID] = Num(j) /\ v.e[j].f[X] = Num(j - 1)

\* the field y of the template is a mapping { x: (i) => i, _repeat: 3 }
HasRepeatedField(t) ==
    /\ t.t = "obj"
    /\ In(Y, t)
    /\ t.f[Y] = Obj(Spread([k \in {X} |-> Fn(IndexArg)], [k \in {REPEAT} |-> Num(3)]))

\* C15: nested _repeat gives the Cartesian expansion: top-level _repeat = 2 around
\* a field that is a mapping with _repeat = 3 gives 2 records, each with a
\* 3-element sub-sequence under that field, ids 1, 2, 3, indices 0, 1, 2.
C15_NestedRepeat ==
    /\ (CreateCalled /\ Returned /\ In(REPEAT, argConfig) /\ argConfig.f[REPEAT] = Num(2)
            /\ In(Y, argTemplate.ret))
       => /\ Records.t = "arr"
          /\ Len(Records.e) = 2
          /\ \A i \in 1..2 : IsSubSequence(Records.e[i].f[Y])
    /\ (called = "generateData" /\ Returned /\ HasRepeatedField(argTemplate))
       => IsSubSequence(returned.f[Y])

\* the number of elements the claim gives to one element of a sequence template
ExpectedCount(element) ==
    IF element.t = "obj" /\ In(REPEAT, element) THEN element.f[REPEAT].n ELSE 1

\* C16: expanding a sequence template splices only repeat elements: a mapping
\* with _repeat = n contributes n elements, every other element (scalar,
\* generator, plain mapping, nested sequence) exactly one.
C16_SpliceOnlyRepeat ==
    (/\ called = "processTemplate"
     /\ argTemplate.t = "arr"
     /\ Returned
     /\ \A i \in 1..Len(argTemplate.e) :
            (argTemplate.e[i].t = "obj" /\ In(REPEAT, argTemplate.e[i]))
            => IsPositiveInteger(argTemplate.e[i].f[REPEAT]))
    => /\ returned.t = "arr"
       /\ Len(returned.e)
            = Sum([i \in 1..Len(argTemplate.e) |-> ExpectedCount(argTemplate.e[i])])

\* some mapping at some depth of the value has a _repeat field
RECURSIVE HasRepeatField(_)
HasRepeatField(v) ==
    CASE v.t = "obj" -> In(REPEAT, v) \/ \E k \in DOMAIN v.f : HasRepeatField(v.f[k])
      [] v.t = "arr" -> \E i \in 1..Len(v.e) : HasRepeatField(v.e[i])
      [] OTHER -> FALSE

\* C17: _repeat is never copied into output: no mapping at any depth of what an
\* expansion returns, and of the document create writes, has a _repeat field.
C17_RepeatNeverCopied ==
    (called \in {"processTemplate", "generateData", "createMockData", "create"}
        /\ Returned)
    => ~HasRepeatField(returned)

\* C18: when monFactory.create has returned, the file it wrote is <key>.json and
\* holds a document with exactly one top-level key, the descriptor's _key, whose
\* value is the materialized record(s).  The streaming writer has no step left
\* after the call, so the state after the call is what the task leaves.
C18_OneKeyDocumentAtKeyJson ==
    (called = "create" /\ Returned)
    => /\ DOMAIN returned.f = {argConfig.f[KEY].s}
       /\ outFile.path = argConfig.f[KEY].s \o <<".", "j", "s", "o", "n">>
       /\ outFile.text = stringify(Obj([k \in {argConfig.f[KEY].s} |-> Records]))

\* C19: for every mapping or sequence the promise of the streaming writer
\* eventually settles, and when it resolves the destination holds the document
\* the non-streaming writer produces (up to white space).
C19_StreamCompletes ==
    (promise = "pending")
    ~> (/\ promise \in {"resolved", "rejected"}
        /\ promise = "resolved" => outFile.text = stringify(argTemplate))

\* C20: key extraction never propagates a read failure: a file that cannot be
\* read is skipped and the keys of the other files are returned; when the
\* factory folder cannot be listed the result is the empty set.
C20_ExtractionNeverThrows ==
    (called = "extractFactoryKeys" /\ pc # "start")
    => /\ pc = "done"
       /\ listFails => factoryKeys = {}
       /\ ~listFails => factoryKeys = {file \in jsFiles : file \notin readFails}

\* ------------------------------------------------------ claims on the run
\* C21: if the documents directory cannot be created the run ends with a non-zero
\* exit status: it starts no generation task, writes no Consolidated Document and
\* never gets past its start except to fail.
C21_DirectoryFailureIsFatal ==
    mkdirFails
    => /\ \A f \in Keys : wstate[f] = "none" /\ msg[f] = "none"
       /\ ~db.written
       /\ pc \in {"start", "failed"}

\* C22: no two generation tasks ever write the same file path: of two tasks that
\* have written their Entity Document, each wrote the file named after its own
\* key and the two paths differ.
C22_NoTwoWritersOfOnePath ==
    \A v, w \in Keys :
        (v # w /\ msg[v] = "completed" /\ msg[w] = "completed")
        => filePath(<<keyOf[v]>>) # filePath(<<keyOf[w]>>)

\* the tasks that leave Running, and those that enter it, in one step
Ended == activeWorkers \ activeWorkers'

Started == activeWorkers' \ activeWorkers

\* C24: each transition of a Running task to a terminal state starts exactly one
\* replacement, the head of the FIFO queue, when the queue is non-empty, and no
\* task is started otherwise; with an empty queue the pool resolves exactly when
\* the last Running task becomes terminal, not before.
C24_OneReplacementPerCompletion ==
    [][(runner = "pool" /\ pc = "generate")
        => /\ \A f \in Keys : (msg[f] = "none" /\ msg'[f] # "none") => f \in Ended
           /\ Started # {} => Cardinality(Ended) = 1
           /\ (Ended # {} /\ taskQueue # <<>>)
              => (Started = {Head(taskQueue)} /\ taskQueue' = Tail(taskQueue))
           /\ (Ended # {} /\ taskQueue = <<>>) => (resolved' <=> activeWorkers' = {})
           /\ (resolved' /\ ~resolved) => Ended # {}]_vars

\* C25: every task follows Pending -> Running -> {Completed, Failed}: a task is
\* started only while Pending, so at most once and never after it became
\* terminal, it never becomes Pending again, and it is recorded in results only
\* after it was started.
C25_TaskLifecycle ==
    [][\A f \in Keys :
          /\ f \in Started => Pending(f)
          /\ (wstate'[f] = "running" /\ wstate[f] # "running") => Pending(f)
          /\ wstate[f] # "none" => wstate'[f] # "none"
          /\ f \in Range(results') => wstate'[f] # "none"]_vars

\* C25 witness: with one worker at a time every task of a three-file queue has
\* been started in turn and recorded
C25_Witness ==
    /\ runner = "pool"
    /\ maxWorkers = 1
    /\ taskQueue = <<>>
    /\ Len(results) >= 3

\* C23: monFactory.create called with the single argument { _key, _template } whose
\* _template contains _repeat: n succeeds and writes <key>.json holding n entries
\* expanded from the template.
C23_DocumentedSingleArgument ==
    (called = "createOneArgument" /\ returned.t # "undefined")
    => /\ returned.t = "obj"
       /\ outFile.path = filePath(argConfig.f[KEY].s)
       /\ returned.f[argConfig.f[KEY].s].t = "arr"
       /\ Len(returned.f[argConfig.f[KEY].s].e) = argConfig.f[TEMPLATE].f[REPEAT].n

\* the count the descriptor and the configuration ask for: the descriptor's own
\* _repeat, else the per-entity override, else the default repeat
RequestedCount ==
    IF In(REPEAT, argConfig)
    THEN argConfig.f[REPEAT]
    ELSE IF argConfig.f[KEY].s \in DOMAIN settings.entities
         THEN settings.entities[argConfig.f[KEY].s]
         ELSE settings.defaultRepeat

\* C26: monFactory.create applies the configured repeat count (the per-entity
\* override, else the default repeat) only when the descriptor has no _repeat; an
\* explicit _repeat is always the count used, and the per-entity override goes
\* before the default repeat: the number of records is the requested count.
C26_RepeatPrecedence ==
    (called = "create" /\ Returned /\ RequestedCount.t = "num" /\ ~RequestedCount.frac)
    => /\ Records.t = "arr"
       /\ Len(Records.e) = RequestedCount.n

\* ------------------------------------------------- claims on the configuration
\* the source sets the path: every part but the last names an object
RECURSIVE SetsPath(_, _)
SetsPath(source, parts) ==
    /\ source.t = "obj"
    /\ In(Head(parts), source)
    /\ Len(parts) > 1 => SetsPath(source.f[Head(parts)], Tail(parts))

RECURSIVE ValueAt(_, _)
ValueAt(source, parts) ==
    IF parts = <<>> THEN source ELSE ValueAt(source.f[Head(parts)], Tail(parts))

\* the value of the first of user file, environment, defaults that sets the path
Resolved(parts) ==
    IF SetsPath(userConfig, parts) THEN ValueAt(userConfig, parts)
    ELSE IF SetsPath(loadFromEnvironment(env), parts)
         THEN ValueAt(loadFromEnvironment(env), parts)
    ELSE IF SetsPath(defaultConfig, parts) THEN ValueAt(defaultConfig, parts)
    ELSE Undefined

\* C27: configuration values are resolved with precedence user config file >
\* environment > defaults: get(path) returns the user-file value if the file sets
\* the path, otherwise the environment value if set, otherwise the default; and
\* load is idempotent: a second load changes nothing.
C27_ConfigPrecedence ==
    [][/\ called = "get" => returned' = Resolved(argPath)
       /\ (called = "load" /\ loaded) => (thisConfig' = thisConfig /\ loaded')]_vars

\* C28: when creating an entity fails validation (bad _key or bad _repeat), no
\* Entity Document is written and every file already in the documents directory
\* is left unchanged; a write is only issued after the expansion has completed.
C28_FailedCreateWritesNothing ==
    [][(called = "create" /\ returned = Undefined)
       => /\ returned'.t = "throw"
             => /\ outFile' = NoFile /\ jsonStream' = NoStream /\ promise' = "none"
                /\ dir' = dir
          /\ (outFile' # NoFile \/ jsonStream' # NoStream)
             => /\ Returned'
                /\ returned' =
                     createMockData(effectiveConfig(argConfig), argTemplate).f[DataProp]]_vars

\* C28 witness: with a document of an earlier run in dbDir, create has rejected a
\* negative _repeat of a descriptor whose key is valid
C28_Witness ==
    /\ called = "create"
    /\ returned.t = "throw"
    /\ IsValidKey(argConfig)
    /\ In(REPEAT, argConfig) /\ argConfig.f[REPEAT] = Num(-1)
    /\ dir[1] = EntityDocument(1, "old")
    /\ outFile = NoFile

\* C29: whenever a generation task is reported completed to the orchestrator, its
\* Entity Document has already been completely written: until merge starts to
\* delete, the document of every task that posted 'completed' is in dbDir.
C29_CompletedMeansWritten ==
    \A f \in Keys :
        (msg[f] = "completed" /\ pc \in {"generate", "sequential", "merge"})
        => dir[keyOf[f]] = EntityDocument(keyOf[f], "new")

====
